---- MODULE Spec2Model ----
(***************************************************************************)
(* GLORYxR: reaction-rule engine, site-of-metabolism annotation, scoring   *)
(* and aggregation of metabolite predictions.                              *)
(*                                                                         *)
(* Molecules are hydrogen-suppressed graphs.  Atom indices are 1-based     *)
(* here (the source is 0-based); the value 0 of ridx / omap / map stands   *)
(* for "property not set" / "no atom map number".                          *)
(***************************************************************************)
EXTENDS Integers, Sequences, FiniteSets, TLC

VARIABLES
    strict_soms,         \* Reactor.strict_soms
    impl,                \* which Reactor class runs: "reactor" (reactor.py) or "legacy" (__init__.py)
    abstract_reactions,  \* Reactor.abstract_reactions / Reactor.reactions: the rule table
    models,              \* _LocalModelProvider.models: subset -> classifier
    mols,                \* the batch handed to GLORYxR.predict
    mi,                  \* index of the molecule predict is working on
    pc,                  \* position inside predict / predict_one / react_one
    ri,                  \* index of the next rule react_one applies
    products,            \* raw RunReactants output of the latest rule application
    reactions,           \* list returned by the latest _to_concrete_reactions call
    concrete_reactions,  \* react_one: reactions collected for the current molecule
    returned,            \* list returned by react_one for the current molecule
    predictions,         \* predict_one: the predictions of the current molecule
    result,              \* list returned by the latest predict_one call
    output,              \* predict: predictions of the molecules finished so far
    run_reactants,       \* what RunReactants gave, per call (molecule index, rule index)
    predictions_list,    \* predict_molecules: the frames _process_molecule returned
    predictions_df,      \* predict_molecules: the table it returns
    X,                   \* Fame3RVectorizer.transform_one: its argument
    transformed          \* Fame3RVectorizer.transform_one: what it returned, if it has

\* the state of MetabolitePredictor.predict_molecules
tables == <<predictions_list, predictions_df>>

\* the state of a call of the vectorizer
vectorizer == <<X, transformed>>

vars == <<strict_soms, impl, abstract_reactions, models, mols, mi, pc, ri,
          products, reactions, concrete_reactions, returned, predictions,
          result, output, run_reactants, tables, vectorizer>>

-----------------------------------------------------------------------------
(* Bounds of the model *)

\* the most raw products RunReactants gives over one call of predict
MaxRaw == 2

\* the most rows of a batch handed to predict_molecules
MaxBatch == 2

-----------------------------------------------------------------------------
(* Molecular graphs (the RDKit capability) *)

\* RDKit's GetDistanceMatrix reports 1e8 between atoms of different fragments
Unreachable == 100000000

Atom(el, map, ridx, omap) == [el |-> el, map |-> map, ridx |-> ridx, omap |-> omap]

NAtoms(m) == Len(m.atoms)

Idx(m) == 1..NAtoms(m)

Neighbours(m, S) == {x : x \in {j \in Idx(m) : \E i \in S : {i, j} \in m.bonds}}

RECURSIVE Ball(_, _, _)
Ball(m, S, k) ==
    IF k = 0 THEN S ELSE Ball(m, {x : x \in S \cup Neighbours(m, S)}, k - 1)

GetDistanceMatrix(m) ==
    [i \in Idx(m) |-> [j \in Idx(m) |->
        IF j \in Ball(m, {i}, NAtoms(m))
        THEN CHOOSE k \in 0..NAtoms(m) :
                 /\ j \in Ball(m, {i}, k)
                 /\ \A k2 \in 0..(k - 1) : j \notin Ball(m, {i}, k2)
        ELSE Unreachable]]

Min(S) == CHOOSE x \in S : \A y \in S : x <= y

Max(S) == CHOOSE x \in S : \A y \in S : x >= y

\* increasing enumeration of a finite set of integers
RECURSIVE SortedSeq(_)
SortedSeq(S) == IF S = {} THEN <<>> ELSE <<Min(S)>> \o SortedSeq(S \ {Min(S)})

PosOf(seq, v) == CHOOSE i \in 1..Len(seq) : seq[i] = v

\* the sub-molecule on the atoms S, atoms kept in index order with their properties
SubMol(m, S) ==
    LET keep == SortedSeq(S)
    IN [atoms |-> [i \in 1..Len(keep) |-> m.atoms[keep[i]]],
        bonds |-> {{PosOf(keep, q[1]), PosOf(keep, q[2])} :
                     q \in {p \in S \X S : p[1] < p[2] /\ {p[1], p[2]} \in m.bonds}}]

\* GetMolFrags(mol, asMols=True): the connected fragments, ordered by lowest atom index
RECURSIVE FragSets(_, _)
FragSets(m, left) ==
    IF left = {} THEN <<>>
    ELSE LET comp == Ball(m, {Min(left)}, NAtoms(m))
         IN <<comp>> \o FragSets(m, left \ comp)

GetMolFrags(m) ==
    LET fs == FragSets(m, Idx(m))
    IN [k \in 1..Len(fs) |-> SubMol(m, fs[k])]

\* elements are named by their symbol; "H" is atomic number 1
GetNumHeavyAtoms(m) == Cardinality({i \in Idx(m) : m.atoms[i].el # "H"})

\* SetAtomMapNum(0) on every atom
WithoutMappings(m) ==
    [m EXCEPT !.atoms = [i \in Idx(m) |-> [m.atoms[i] EXCEPT !.map = 0]]]

PermTable ==
    [n \in 0..5 |->
        {q : q \in {p \in [1..n -> 1..n] : \A i, j \in 1..n : p[i] = p[j] => i = j}}]

Perms(n) == PermTable[n]

\* sum of a finite set of integers
RECURSIVE SetSum(_)
SetSum(S) == IF S = {} THEN 0 ELSE LET x == CHOOSE x \in S : TRUE IN x + SetSum(S \ {x})

\* The characters of the line notation: an atom is written as one digit in base 16
\* (its element, and its atom map number times 4), a bond as one bit.
ElementCodes == <<"C", "N", "O", "H">>

AtomDigit(a) == (PosOf(ElementCodes, a.el) - 1) + 4 * a.map

BondBit(i, j) == LET lo == IF i < j THEN i ELSE j
                     hi == IF i < j THEN j ELSE i
                 IN 2 ^ (((hi - 1) * (hi - 2)) \div 2 + (lo - 1))

\* the molecule written down with its atoms numbered by p (the digits of different
\* positions and the bits of different bonds are different numbers)
RenumberCode(m, p) ==
    SetSum({AtomDigit(m.atoms[i]) * (16 ^ (p[i] - 1)) : i \in Idx(m)}) * 1024
    + SetSum({LET i == CHOOSE i \in b : TRUE
                  j == CHOOSE j \in b : j # i
              IN BondBit(p[i], p[j]) : b \in m.bonds})

\* A SMILES string is the number of its atoms and the code of the molecule with the
\* atoms numbered in the order the string names them.
\* MolToSmiles: the canonical string of a molecule, atom map numbers included. It is
\* the same for two molecules exactly when they are the same graph up to atom
\* numbering: the number of atoms and the least of the codes of its renumberings.
MolToSmiles(m) ==
    <<NAtoms(m), Min({RenumberCode(m, p) : p \in Perms(NAtoms(m))})>>

\* MolToInchi: the InChI carries no atom map numbers
MolToInchi(m) == MolToSmiles(WithoutMappings(m))

-----------------------------------------------------------------------------
(* Input molecules and the raw products RunReactants can give for them *)

Mol(atoms, bonds) == [atoms |-> atoms, bonds |-> bonds]

Propane ==
    Mol(<<Atom("C", 0, 0, 0), Atom("C", 0, 0, 0), Atom("C", 0, 0, 0)>>,
        {{1, 2}, {2, 3}})

Aziridine ==
    Mol(<<Atom("C", 0, 0, 0), Atom("N", 0, 0, 0), Atom("C", 0, 0, 0)>>,
        {{1, 2}, {2, 3}, {1, 3}})

Educts == {Propane, Aziridine}

\* One match of a rule on the educt, described by what the transformation does:
\*   rem  the educt atoms the template deletes
\*   add  the atoms the template creates, each bonded to educt atom `at` (0: to none)
\*   tm   the template's atom-map number of each educt atom (0: not a mapped template atom)
\*   sane whether SanitizeMol accepts the raw product
Match(rem, add, tm, sane) == [rem |-> rem, add |-> add, tm |-> tm, sane |-> sane]

Matches ==
    { Match({}, <<[el |-> "O", at |-> 1]>>, <<1, 0, 0>>, TRUE),
      Match({}, <<[el |-> "O", at |-> 3]>>, <<0, 0, 1>>, TRUE),
      Match({}, <<[el |-> "O", at |-> 1]>>, <<1, 0, 0>>, FALSE),
      Match({3}, <<>>, <<1, 0, 0>>, TRUE),
      Match({}, <<>>, <<1, 2, 0>>, TRUE),
      Match({}, <<[el |-> "O", at |-> 0]>>, <<1, 0, 0>>, TRUE),
      Match({3}, <<[el |-> "O", at |-> 1]>>, <<1, 0, 0>>, TRUE),
      Match({1, 2, 3}, <<[el |-> "O", at |-> 0]>>, <<0, 0, 0>>, TRUE) }

\* The raw product of one match: the surviving educt atoms in index order, each with
\* react_atom_idx (ridx) and, for mapped template atoms, old_mapno (omap), followed by
\* the created atoms, which carry neither property.
RawProduct(educt, c) ==
    LET kept == SortedSeq(Idx(educt) \ c.rem)
        nk == Len(kept)
        old == [i \in 1..nk |->
                   Atom(educt.atoms[kept[i]].el, educt.atoms[kept[i]].map,
                        kept[i], c.tm[kept[i]])]
        new == [i \in 1..Len(c.add) |-> Atom(c.add[i].el, 0, 0, 0)]
    IN [mol |-> Mol(old \o new,
                    {{PosOf(kept, p[1]), PosOf(kept, p[2])} :
                        p \in {q \in (Idx(educt) \ c.rem) \X (Idx(educt) \ c.rem) :
                                  q[1] < q[2] /\ {q[1], q[2]} \in educt.bonds}}
                    \cup {{PosOf(kept, c.add[i].at), nk + i} :
                            i \in {j \in 1..Len(c.add) :
                                      c.add[j].at \in (Idx(educt) \ c.rem)}}),
        sane |-> c.sane]

RawProducts(educt) == {RawProduct(educt, c) : c \in Matches}

SeqsUpTo(S, n) == UNION {[1..k -> S] : k \in 0..n}

-----------------------------------------------------------------------------
(* Rule table *)

NoProp == "<unset>"

Rule(name, priority, subset) == [name |-> name, priority |-> priority, subset |-> subset]

\* gloryx_reactionrules.csv as loaded by _load_reaction_rules; the second table has a
\* row whose priority level is neither "common" nor "uncommon", the third two rules of
\* the same priority level and subset
GloryxRules ==
    <<Rule("hydroxylation", "common", "P450"), Rule("dealkylation", "uncommon", "UGT")>>

RuleTables ==
    { GloryxRules,
      <<Rule("hydroxylation", "common", "P450"), Rule("reduction", "rare", "UGT")>>,
      <<Rule("hydroxylation", "common", "P450"), Rule("epoxidation", "common", "P450")>> }

-----------------------------------------------------------------------------
(* reactor.py / reaction.py: from an abstract rule to concrete reactions *)

ConcreteReaction(name, priority, subset, educt, product) ==
    [name |-> name, priority |-> priority, subset |-> subset,
     educt |-> educt, product |-> product]

\* the loop of _to_concrete_reactions over the raw products, `known` being known_products
RECURSIVE ToConcreteLoop(_, _, _, _, _)
ToConcreteLoop(rule, educt, prods, known, withMeta) ==
    IF prods = <<>> THEN <<>>
    ELSE LET product == Head(prods)
             inchi == MolToInchi(product.mol)
         IN IF ~product.sane
            THEN ToConcreteLoop(rule, educt, Tail(prods), known, withMeta)
            ELSE IF inchi \in known
            THEN ToConcreteLoop(rule, educt, Tail(prods), known, withMeta)
            ELSE <<ConcreteReaction(rule.name,
                                    IF withMeta THEN rule.priority ELSE NoProp,
                                    IF withMeta THEN rule.subset ELSE NoProp,
                                    educt, product.mol)>>
                 \o ToConcreteLoop(rule, educt, Tail(prods), known \cup {inchi}, withMeta)

\* _to_concrete_reactions as it would be without the known_products test
ToConcreteReactionsKeepAll(rule, educt, prods) ==
    LET sane == SelectSeq(prods, LAMBDA product : product.sane)
    IN [k \in 1..Len(sane) |->
           ConcreteReaction(rule.name, rule.priority, rule.subset, educt, sane[k].mol)]

\* _to_concrete_reactions as it would be if a candidate that fails sanitization ended
\* the enumeration
ToConcreteReactionsStopAtInvalid(rule, educt, prods) ==
    LET invalid == {j \in 1..Len(prods) : ~prods[j].sane}
    IN ToConcreteLoop(rule, educt,
                      IF invalid = {} THEN prods ELSE SubSeq(prods, 1, Min(invalid) - 1),
                      {}, TRUE)

\* _to_concrete_reactions as it would be if known_products were one set kept from call
\* to call (a default argument, or an attribute of the Reactor) instead of a new set
\* per call: the identities the earlier calls have seen are known
ToConcreteReactionsKnownKept(rule, educt, prods) ==
    ToConcreteLoop(rule, educt, prods,
                   UNION {{MolToInchi(run_reactants[x][j].mol) :
                              j \in {j \in 1..Len(run_reactants[x]) :
                                        run_reactants[x][j].sane}} :
                          x \in DOMAIN run_reactants},
                   TRUE)

\* reactor.py
ToConcreteReactions(rule, educt, prods) == ToConcreteLoop(rule, educt, prods, {}, TRUE)

\* reaction.py: copies the rule name only
LegacyToConcreteReactions(rule, educt, prods) == ToConcreteLoop(rule, educt, prods, {}, FALSE)

-----------------------------------------------------------------------------
(* som.py: site-of-metabolism annotation *)

\* _get_loose_som_indices as it would be if it took every atom that came from the educt
GetLooseSomIndicesAllCommon(product) ==
    SelectSeq([i \in Idx(product) |-> i],
              LAMBDA i : product.atoms[i].ridx # 0 /\ product.atoms[i].el # "H")

\* _get_loose_som_indices: product atoms with old_mapno that are not hydrogen
GetLooseSomIndices(product) ==
    SelectSeq([i \in Idx(product) |-> i],
              LAMBDA i : product.atoms[i].omap # 0 /\ product.atoms[i].el # "H")

\* _get_closest_idxs as it would be if it kept every entry of filter_idx
GetClosestIdxsKeepAll(mol, reference_idx, filter_idx) == filter_idx

\* _get_closest_idxs: the entries of filter_idx (in their order) whose distance to the
\* nearest reference atom is the minimum over filter_idx; distances.min(initial=inf)
\* makes an empty filter_idx give an empty result
GetClosestIdxs(mol, reference_idx, filter_idx) ==
    LET dm == GetDistanceMatrix(mol)
        distances == [k \in 1..Len(filter_idx) |->
                         Min({dm[filter_idx[k]][r] : r \in reference_idx})]
    IN IF filter_idx = <<>> THEN <<>>
       ELSE LET least == Min({distances[k] : k \in 1..Len(filter_idx)})
                hit == SelectSeq([k \in 1..Len(filter_idx) |-> k],
                                 LAMBDA k : distances[k] = least)
            IN [k \in 1..Len(hit) |-> filter_idx[hit[k]]]

\* _get_strict_som_indices as it would be if added atoms were looked at before
\* removed ones
GetStrictSomIndicesAddedFirst(educt, product) ==
    LET involved == SelectSeq([i \in Idx(product) |-> i],
                      LAMBDA i : product.atoms[i].ridx # 0 /\ product.atoms[i].el # "H")
        keys == [k \in 1..Len(involved) |-> product.atoms[involved[k]].ridx]
        involved_idx_mappings(idx) == involved[PosOf(keys, idx)]
        added_by_reaction_idx == {i \in Idx(product) : product.atoms[i].ridx = 0}
        removed_by_reaction_idx ==
            {i \in Idx(educt) : \A k \in 1..Len(keys) : keys[k] # i}
    IN IF added_by_reaction_idx # {}
       THEN GetClosestIdxs(product, added_by_reaction_idx, involved)
       ELSE IF removed_by_reaction_idx # {}
       THEN LET closest == GetClosestIdxs(educt, removed_by_reaction_idx, keys)
            IN [k \in 1..Len(closest) |-> involved_idx_mappings(closest[k])]
       ELSE <<>>

\* _get_strict_som_indices
GetStrictSomIndices(educt, product) ==
    LET \* product atoms that have react_atom_idx and are not hydrogen, in product order
        involved == SelectSeq([i \in Idx(product) |-> i],
                      LAMBDA i : product.atoms[i].ridx # 0 /\ product.atoms[i].el # "H")
        keys == [k \in 1..Len(involved) |-> product.atoms[involved[k]].ridx]
        involved_idx_mappings(idx) == involved[PosOf(keys, idx)]
        added_by_reaction_idx == {i \in Idx(product) : product.atoms[i].ridx = 0}
        removed_by_reaction_idx ==
            {i \in Idx(educt) : \A k \in 1..Len(keys) : keys[k] # i}
    IN IF removed_by_reaction_idx # {}
       THEN LET closest == GetClosestIdxs(educt, removed_by_reaction_idx, keys)
            IN [k \in 1..Len(closest) |-> involved_idx_mappings(closest[k])]
       ELSE IF added_by_reaction_idx # {}
       THEN GetClosestIdxs(product, added_by_reaction_idx, involved)
       ELSE <<>>

\* the label annotation gives to a product atom: its old_mapno, or 1 without one
SiteLabel(atom) == IF atom.omap # 0 THEN atom.omap ELSE 1

\* the loop of annotate_educt_and_product_inplace over product_idxs
RECURSIVE AnnotateLoop(_, _, _)
AnnotateLoop(educt, product, idxs) ==
    IF idxs = <<>> THEN [educt |-> educt, product |-> product]
    ELSE LET idx == Head(idxs)
             atom == product.atoms[idx]
             mapno == SiteLabel(atom)
         IN AnnotateLoop(
                [educt EXCEPT !.atoms[atom.ridx].map = mapno],
                [product EXCEPT !.atoms[idx].map = mapno],
                Tail(idxs))

\* annotate_educt_and_product_inplace as it would be if strict mode fell back to the
\* loose sites when it finds none
SomIndicesLooseFallback(educt, product, strict) ==
    IF strict /\ GetStrictSomIndices(educt, product) # <<>>
    THEN GetStrictSomIndices(educt, product)
    ELSE GetLooseSomIndices(product)

\* the product atoms annotation selects as sites
SomIndices(educt, product, strict) ==
    IF strict THEN GetStrictSomIndices(educt, product) ELSE GetLooseSomIndices(product)

\* annotate_educt_and_product_inplace, applied to the private copies of one reaction
Annotate(r, strict) ==
    LET done == AnnotateLoop(r.educt, r.product, SomIndices(r.educt, r.product, strict))
    IN [r EXCEPT !.educt = done.educt, !.product = done.product]

\* The molecule objects react_one holds, by reference: object 0 is the molecule passed
\* in; the k-th concrete reaction is built on Mol(educt) and on what RemoveHs returns,
\* objects of its own (2k - 1: its reactant template, 2k: its product template).
\* The reactant template as it would be if the reaction were built on the molecule
\* passed in, without a copy:
ReactantTemplateShared(k) == 0

ReactantTemplate(k) == 2 * k - 1

ProductTemplate(k) == 2 * k

\* the objects when the chain over the rules is done
Objects(mol, crs) ==
    [c \in 0..(2 * Len(crs)) |->
        IF c = 0 THEN mol
        ELSE IF c % 2 = 1 THEN crs[(c + 1) \div 2].educt
        ELSE crs[c \div 2].product]

\* react_one, "Annotate each concrete reaction with SOM information": the loop over
\* the first n reactions from the k-th on, each annotated in place on the objects it
\* refers to
RECURSIVE AnnotateInplaceLoop(_, _, _, _)
AnnotateInplaceLoop(objects, n, k, strict) ==
    IF k > n THEN objects
    ELSE LET e == ReactantTemplate(k)
             p == ProductTemplate(k)
             done == AnnotateLoop(objects[e], objects[p],
                                  SomIndices(objects[e], objects[p], strict))
         IN AnnotateInplaceLoop(
                [c \in DOMAIN objects |->
                    IF c = p THEN done.product
                    ELSE IF c = e THEN done.educt
                    ELSE objects[c]],
                n, k + 1, strict)

\* the molecule passed in and the concrete reactions, as the loop leaves them
AnnotateAll(mol, crs, strict) ==
    LET objects == AnnotateInplaceLoop(Objects(mol, crs), Len(crs), 1, strict)
    IN [mol |-> objects[0],
        concrete_reactions |->
            [k \in 1..Len(crs) |->
                [crs[k] EXCEPT !.educt = objects[ReactantTemplate(k)],
                               !.product = objects[ProductTemplate(k)]]]]

-----------------------------------------------------------------------------
(* reactor.py: splitting combined products *)

RECURSIVE Concat(_)
Concat(ss) == IF ss = <<>> THEN <<>> ELSE Head(ss) \o Concat(Tail(ss))

\* _separate_reactions_for_products
SeparateReactionsForProducts(combined_reaction) ==
    LET frags == GetMolFrags(combined_reaction.product)
    IN IF Len(frags) = 1 THEN <<combined_reaction>>
       ELSE [k \in 1..Len(frags) |->
                ConcreteReaction(combined_reaction.name, combined_reaction.priority,
                                 combined_reaction.subset, combined_reaction.educt,
                                 frags[k])]

-----------------------------------------------------------------------------
(* utils.py, should_be_in_fame3r.py, _models.py, prediction.py: scoring *)

\* Scores are floats: NaN or a number, the numbers in hundredths
\* (probabilities in tenths times priority factors in tenths)
Float(v) == [nan |-> FALSE, v |-> v]

NaN == [nan |-> TRUE, v |-> 0]

\* Python's a < b on floats: False as soon as one side is NaN
FloatLess(a, b) == ~a.nan /\ ~b.nan /\ a.v < b.v

\* extract_smiles_for_soms: mapno_to_idx keeps, for each map number, the last atom
\* that carries it; one view per map number, in ascending order, all other atoms cleared
MapnoToIdx(mol, mapno) == Max({i \in Idx(mol) : mol.atoms[i].map = mapno})

\* the view as it would be if every atom carrying the view's map number kept it
SingleMolKeepSameLabel(mol, mapno) ==
    [mol EXCEPT !.atoms = [i \in Idx(mol) |->
        IF mol.atoms[i].map # mapno THEN [mol.atoms[i] EXCEPT !.map = 0]
        ELSE mol.atoms[i]]]

SingleMol(mol, mapno) ==
    [mol EXCEPT !.atoms = [i \in Idx(mol) |->
        IF MapnoToIdx(mol, mapno) # i THEN [mol.atoms[i] EXCEPT !.map = 0]
        ELSE mol.atoms[i]]]

ExtractSmilesForSoms(mol) ==
    LET mapnos == SortedSeq({mol.atoms[i].map : i \in Idx(mol)} \ {0})
    IN [k \in 1..Len(mapnos) |-> MolToSmiles(SingleMol(mol, mapnos[k]))]

\* util.py extract_similes_for_soms: the same views, as molecules
ExtractSimilesForSoms(mol) ==
    LET mapnos == SortedSeq({mol.atoms[i].map : i \in Idx(mol)} \ {0})
    IN [k \in 1..Len(mapnos) |-> SingleMol(mol, mapnos[k])]

\* Fame3RVectorizer._empty_value: the all-NaN vector
EmptyValue == [el |-> "nan", degree |-> 0]

\* parseSMILES: the atoms (element code and map number) and the bonds of the string,
\* the atoms in the order the string names them
ParseSmiles(smiles) ==
    LET n == smiles[1]
        atompart == smiles[2] \div 1024
        bondpart == smiles[2] % 1024
        digit(k) == (atompart \div (16 ^ (k - 1))) % 16
    IN [atoms |-> [k \in 1..n |-> [el |-> ElementCodes[(digit(k) % 4) + 1],
                                   map |-> digit(k) \div 4]],
        bonds |-> {{q[1], q[2]} :
                      q \in {p \in (1..n) \X (1..n) :
                                p[1] < p[2] /\ (bondpart \div BondBit(p[1], p[2])) % 2 = 1}}]

\* a value that is not a str: None, or the float NaN that DataFrame.explode puts in the
\* column SOM for a reaction whose educt gave no view
NotAStr == <<>>

\* Fame3RVectorizer.transform_one: all-NaN for an argument that is not a str; otherwise
\* parses the SMILES, builds the dict som_atoms_unordered from mapping id to atom (of
\* the atoms with one id the one the string names last stays) and, when the dict has
\* exactly one key,
\* describes the environment of its atom (element and number of neighbours); all-NaN
\* when it has none or several
TransformOne(smiles) ==
    IF smiles = NotAStr THEN EmptyValue
    ELSE LET parsed == ParseSmiles(smiles)
             ids == {parsed.atoms[k].map : k \in DOMAIN parsed.atoms} \ {0}
             som_atoms_unordered(id) ==
                 Max({k \in DOMAIN parsed.atoms : parsed.atoms[k].map = id})
         IN IF Cardinality(ids) # 1 THEN EmptyValue
            ELSE LET a == som_atoms_unordered(Min(ids))
                 IN [el |-> parsed.atoms[a].el,
                     degree |-> Cardinality({b \in parsed.bonds : a \in b})]

\* The trained classifiers: probability of the positive class, in tenths
Classifiers == {"forestA", "forestB"}

ClassifierProba(clf, d) ==
    IF clf = "forestA"
    THEN (IF d.el = "C" THEN (IF d.degree <= 1 THEN 2 ELSE 5) ELSE 8)
    ELSE (IF d.el = "C" THEN (IF d.degree <= 1 THEN 8 ELSE 5) ELSE 2)

\* _LocalModelProvider.predict_proba(subset, [descriptors])[0][-1]
PredictProba(provider, subset, descriptors) == ClassifierProba(provider[subset], descriptors)

\* GLORYxR._get_prediction_score raises: ValueError for a priority that is neither
\* "common" nor "uncommon", KeyError when the provider has no model for the subset
GetPredictionScoreRaises(provider, priority, subset) ==
    \/ priority \notin {"common", "uncommon"}
    \/ subset \notin DOMAIN provider

\* _get_prediction_score as it would be with one priority factor for every rule
GetPredictionScoreUnweighted(provider, descriptors, priority, subset) ==
    Float(PredictProba(provider, subset, descriptors) * 10)

\* GLORYxR._get_prediction_score: som_probability * priority_factor
GetPredictionScore(provider, descriptors, priority, subset) ==
    LET priority_factor == IF priority = "common" THEN 10 ELSE 2
    IN Float(PredictProba(provider, subset, descriptors) * priority_factor)

FloatMax(S) == CHOOSE x \in S : \A y \in S : ~FloatLess(x, y)

\* GLORYxR._generate_predictions: max(scores) if scores else nan
GeneratePredictions(provider, marked_educt, priority, subset) ==
    LET som_smiles == ExtractSmilesForSoms(marked_educt)
        scores == [k \in 1..Len(som_smiles) |->
                      GetPredictionScore(provider, TransformOne(som_smiles[k]),
                                         priority, subset)]
    IN IF scores = <<>> THEN NaN
       ELSE FloatMax({scores[k] : k \in 1..Len(scores)})

GeneratePredictionsRaises(provider, marked_educt, priority, subset) ==
    /\ ExtractSmilesForSoms(marked_educt) # <<>>
    /\ GetPredictionScoreRaises(provider, priority, subset)

Prediction(concrete_reaction, score) ==
    [concrete_reaction |-> concrete_reaction, score |-> score]

\* gloryxr.utils.mol_without_mappings: a copy of the molecule with no site labels
MolWithoutMappings(mol) == WithoutMappings(mol)

\* Prediction.get_product_smiles(clean=True)
GetProductSmiles(prediction) ==
    MolToSmiles(MolWithoutMappings(prediction.concrete_reaction.product))

\* predict_one, "Deduplicate predicted products": the dict `deduplicated` as the
\* sequence of its items (key, value) in insertion order
RECURSIVE DeduplicateLoop(_, _)
DeduplicateLoop(preds, deduplicated) ==
    IF preds = <<>> THEN deduplicated
    ELSE LET prediction == Head(preds)
             product_smiles == GetProductSmiles(prediction)
             at == {k \in 1..Len(deduplicated) : deduplicated[k].key = product_smiles}
             item == [key |-> product_smiles, value |-> prediction]
         IN IF at = {}
            THEN DeduplicateLoop(Tail(preds), Append(deduplicated, item))
            ELSE LET k == CHOOSE k \in at : TRUE
                 IN IF FloatLess(deduplicated[k].value.score, prediction.score)
                    THEN DeduplicateLoop(Tail(preds), [deduplicated EXCEPT ![k] = item])
                    ELSE DeduplicateLoop(Tail(preds), deduplicated)

\* predict_one as it would be if it listed the values of `deduplicated` newest first
DeduplicateNewestFirst(preds) ==
    LET deduplicated == DeduplicateLoop(preds, <<>>)
        n == Len(deduplicated)
    IN [k \in 1..n |-> deduplicated[n + 1 - k].value]

\* list(deduplicated.values())
Deduplicate(preds) ==
    LET deduplicated == DeduplicateLoop(preds, <<>>)
    IN [k \in 1..Len(deduplicated) |-> deduplicated[k].value]

\* the smallest number of heavy atoms a reported product has
MinHeavyAtoms == 3

\* predict_one as it would be without the heavy-atom filter
FilterHeavyKeepAll(preds) == preds

\* predict_one, "Filter out products with less than 3 heavy atoms"
FilterHeavy(preds) ==
    SelectSeq(preds, LAMBDA pred :
        GetNumHeavyAtoms(pred.concrete_reaction.product) >= MinHeavyAtoms)

\* predict_one after scoring: deduplicate, then filter
AggregateOne(preds) == FilterHeavy(Deduplicate(preds))

-----------------------------------------------------------------------------
(* predictor.py: MetabolitePredictor.predict_molecules, from "Combine results" on *)

\* clean_smiles: parse, clear the atom map numbers, write the canonical SMILES
CleanSmiles(smiles) == MolToSmiles(WithoutMappings(ParseSmiles(smiles)))

\* the text MolToSmiles(mol, canonical=True) writes for a parent with its atom map
\* numbers cleared, as the code points of its characters: "CCC" for propane and
\* "C1CN1" for aziridine
SmilesText(smiles) ==
    CASE smiles = MolToSmiles(Propane) -> <<67, 67, 67>>
      [] smiles = MolToSmiles(Aziridine) -> <<67, 49, 67, 78, 49>>

\* the order of two Python strings: by code point at the first position where they
\* differ, a proper prefix first
StrLess(s, t) ==
    \E k \in 1..(Min({Len(s), Len(t)}) + 1) :
        /\ \A j \in 1..(k - 1) : s[j] = t[j]
        /\ k <= Len(t)
        /\ (k <= Len(s) => s[k] < t[k])

\* the order of two SMILES strings, as sort_values compares the column parent_smiles
SmilesLess(a, b) == StrLess(SmilesText(a), SmilesText(b))

\* a score comes before another in descending order, NaN last
ScorePrecedes(a, b) == (~a.nan /\ b.nan) \/ FloatLess(b, a)

\* pd.concat(predictions_list) with both SMILES columns cleaned
CleanedRows(frames) ==
    LET combined == Concat(frames)
    IN [k \in 1..Len(combined) |->
           [combined[k] EXCEPT !.parent_smiles = CleanSmiles(@),
                               !.metabolite_smiles = CleanSmiles(@)]]

\* sort_values(by="Score", ascending=False): the orders the default quicksort can
\* give, rows of equal Score in any order (order[k]: index of the row that comes k-th)
SortValuesByScore(rows) ==
    {order \in Perms(Len(rows)) :
        \A i, j \in 1..Len(rows) :
            i < j => ~ScorePrecedes(rows[order[j]].Score, rows[order[i]].Score)}

\* groupby(by=["metabolite_smiles"], sort=False).first(): the first row of each group,
\* the groups in the order of their first row (no cell of a row is null)
RECURSIVE GroupbyFirst(_, _)
GroupbyFirst(rows, seen) ==
    IF rows = <<>> THEN <<>>
    ELSE IF Head(rows).metabolite_smiles \in seen
    THEN GroupbyFirst(Tail(rows), seen)
    ELSE <<Head(rows)>>
         \o GroupbyFirst(Tail(rows), seen \cup {Head(rows).metabolite_smiles})

\* get_largest_fragment: max(fragments, key=GetNumAtoms) gives the first of the largest
GetLargestFragment(smiles) ==
    LET fragments == GetMolFrags(ParseSmiles(smiles))
    IN IF Len(fragments) > 1
       THEN LET most == Max({NAtoms(fragments[k]) : k \in 1..Len(fragments)})
                largest_fragment ==
                    fragments[Min({k \in 1..Len(fragments) : NAtoms(fragments[k]) = most})]
            IN MolToSmiles(largest_fragment)
       ELSE smiles

\* the row with the columns renamed: Subset, Reaction, Score, SOM in lowercase
Renamed(row) ==
    [parent_name |-> row.parent_name, parent_smiles |-> row.parent_smiles,
     metabolite_smiles |-> row.metabolite_smiles, reaction |-> row.Reaction,
     rule_subset |-> row.Subset, som |-> row.SOM, score |-> row.Score]

\* sort_values(by=["parent_smiles", "score"], ascending=[True, False]): the order of
\* two rows, and the sort, which keeps the order of rows that compare equal
RowBefore(a, b) ==
    \/ SmilesLess(a.parent_smiles, b.parent_smiles)
    \/ a.parent_smiles = b.parent_smiles /\ ScorePrecedes(a.score, b.score)

RECURSIVE SortByParentAndScore(_, _)
SortByParentAndScore(rows, sorted) ==
    IF rows = <<>> THEN sorted
    ELSE LET row == Head(rows)
             later == {k \in 1..Len(sorted) : RowBefore(row, sorted[k])}
             at == IF later = {} THEN Len(sorted) + 1 ELSE Min(later)
         IN SortByParentAndScore(
                Tail(rows),
                SubSeq(sorted, 1, at - 1) \o <<row>> \o SubSeq(sorted, at, Len(sorted)))

\* predict_molecules as it would be if the heavy-atom mask came before the reduction
\* to the largest fragment
AggregateFramesFilterFirst(cleaned, order) ==
    LET first == GroupbyFirst([k \in 1..Len(cleaned) |-> cleaned[order[k]]], {})
        kept == SelectSeq(first, LAMBDA row :
                    GetNumHeavyAtoms(ParseSmiles(row.metabolite_smiles)) >= 3)
        largest == [k \in 1..Len(kept) |->
                       [kept[k] EXCEPT !.metabolite_smiles = GetLargestFragment(@)]]
    IN SortByParentAndScore([k \in 1..Len(largest) |-> Renamed(largest[k])], <<>>)

\* predict_molecules from "Filter out duplicated predictions" on: `cleaned` is the
\* combined table with its SMILES columns cleaned, `order` the order sorting by Score
\* puts its rows in
AggregateFrames(cleaned, order) ==
    LET first == GroupbyFirst([k \in 1..Len(cleaned) |-> cleaned[order[k]]], {})
        largest == [k \in 1..Len(first) |->
                       [first[k] EXCEPT !.metabolite_smiles = GetLargestFragment(@)]]
        kept == SelectSeq(largest, LAMBDA row :
                    GetNumHeavyAtoms(ParseSmiles(row.metabolite_smiles)) >= 3)
    IN SortByParentAndScore([k \in 1..Len(kept) |-> Renamed(kept[k])], <<>>)

\* MetabolitePredictor._get_prediction_score raises: KeyError when the row has no
\* column "Priority" (or "Subset", "Descriptors"), ValueError for a priority that is
\* neither "common" nor "uncommon"
RowPredictionScoreRaises(row) ==
    \/ {"Subset", "Descriptors", "Priority"} \ DOMAIN row # {}
    \/ row.Priority \notin {"common", "uncommon"}

\* MetabolitePredictor._get_prediction_score: som_probability * priority_factor, and
\* 0.0 for a subset without a model
RowPredictionScore(provider, row) ==
    LET priority_factor == IF row.Priority = "common" THEN 10 ELSE 2
    IN IF row.Subset \in DOMAIN provider
       THEN Float(ClassifierProba(provider[row.Subset], row.Descriptors) * priority_factor)
       ELSE Float(0)

\* _generate_predictions: the row of one site of one reaction of the molecule
FrameRow(parent_name, educt, c, score) ==
    LET rule == IF c.rem = {} /\ (\A k \in 1..Len(c.add) : c.add[k].at # 0)
                THEN GloryxRules[1] ELSE GloryxRules[2]
        r == Annotate(ConcreteReaction(rule.name, NoProp, NoProp, educt,
                                       RawProduct(educt, c).mol), FALSE)
    IN [parent_name |-> parent_name,
        parent_smiles |-> MolToSmiles(r.educt),
        metabolite_smiles |-> MolToSmiles(r.product),
        Reaction |-> rule.name,
        Subset |-> rule.subset,
        SOM |-> ExtractSmilesForSoms(r.educt)[1],
        Score |-> score]

\* Tables with the columns of the frame _generate_predictions builds (predictor.py
\* 216-226), drawn as arguments of the steps of predict_molecules from "Combine
\* results" on. No run collects such a frame: _process_molecule ends in None or in an
\* empty frame, _get_prediction_score raising for every row. The rows are of matches
\* with one site each, one of them a match that changes no heavy atom, one a match
\* that removes an atom and gives a one-atom second fragment.
FrameScores == {Float(10), Float(50)}

FrameMatches ==
    {c \in Matches : c.sane /\ c.tm = <<1, 0, 0>> /\ (c.rem = {} \/ c.add = <<>>)}
    \cup {Match({}, <<>>, <<1, 0, 0>>, TRUE),
          Match({3}, <<[el |-> "O", at |-> 0]>>, <<1, 0, 0>>, TRUE)}

FrameRows(parent_name, educt) ==
    {FrameRow(parent_name, educt, c, score) : c \in FrameMatches, score \in FrameScores}

\* a frame of one row
OneRowFrames(parent_name) ==
    UNION {{<<r>> : r \in FrameRows(parent_name, educt)} : educt \in Educts}

\* a frame of two rows
TwoRowFrames(parent_name) ==
    UNION {{<<r1, r2>> : r1 \in FrameRows(parent_name, educt),
                         r2 \in FrameRows(parent_name, educt)} : educt \in Educts}

\* None in the column ROMol: a row whose molecule could not be read
None == [none |-> TRUE]

\* load_reaction_subsets: reaction name -> name of rule subset, the last row of a name
\* staying
LoadReactionSubsets(rules) ==
    [name \in {rules[k].name : k \in 1..Len(rules)} |->
        rules[Max({k \in 1..Len(rules) : rules[k].name = name})].subset]

\* reactions_to_table: the columns Educt, Product, Reaction
ReactionsToTable(rs) ==
    [k \in 1..Len(rs) |->
        [Educt |-> rs[k].educt, Product |-> rs[k].product, Reaction |-> rs[k].name]]

\* _process_molecule: the column Subset, "Unknown" for a name without a subset
WithSubset(reactions_df, reaction_subsets) ==
    [k \in 1..Len(reactions_df) |->
        [Educt |-> reactions_df[k].Educt, Product |-> reactions_df[k].Product,
         Reaction |-> reactions_df[k].Reaction,
         Subset |-> IF reactions_df[k].Reaction \in DOMAIN reaction_subsets
                    THEN reaction_subsets[reactions_df[k].Reaction]
                    ELSE "Unknown"]]

\* _generate_predictions: the column SOM and explode("SOM"), one row per view and one
\* row with NaN for a reaction without views
Explode(reactions_df) ==
    Concat([k \in 1..Len(reactions_df) |->
        LET row == reactions_df[k]
            soms == ExtractSmilesForSoms(row.Educt)
            with(som) == [Educt |-> row.Educt, Product |-> row.Product,
                          Reaction |-> row.Reaction, Subset |-> row.Subset, SOM |-> som]
        IN IF soms = <<>> THEN <<with(NotAStr)>>
           ELSE [i \in 1..Len(soms) |-> with(soms[i])]])

\* _generate_predictions: the column Descriptors
WithDescriptors(exploded_df) ==
    [k \in 1..Len(exploded_df) |->
        [Educt |-> exploded_df[k].Educt, Product |-> exploded_df[k].Product,
         Reaction |-> exploded_df[k].Reaction, Subset |-> exploded_df[k].Subset,
         SOM |-> exploded_df[k].SOM, Descriptors |-> TransformOne(exploded_df[k].SOM)]]

\* _generate_predictions raises when _get_prediction_score raises for one of the rows
PredictorGeneratePredictionsRaises(exploded_df) ==
    \E k \in 1..Len(exploded_df) : RowPredictionScoreRaises(exploded_df[k])

\* _generate_predictions: the frame it returns
PredictorGeneratePredictions(provider, exploded_df, parent_name) ==
    [k \in 1..Len(exploded_df) |->
        [parent_name |-> parent_name,
         parent_smiles |-> MolToSmiles(exploded_df[k].Educt),
         metabolite_smiles |-> MolToSmiles(exploded_df[k].Product),
         Reaction |-> exploded_df[k].Reaction,
         Subset |-> exploded_df[k].Subset,
         SOM |-> exploded_df[k].SOM,
         Score |-> RowPredictionScore(provider, exploded_df[k])]]

\* _process_molecule, `rs` being what react_one returned for the molecule: None (any
\* exception is caught and gives None), or a frame
ProcessMolecule(provider, reaction_subsets, mol, rs, parent_name) ==
    IF mol = None THEN [none |-> TRUE, frame |-> <<>>]
    ELSE IF rs = <<>> THEN [none |-> FALSE, frame |-> <<>>]
    ELSE LET exploded_df ==
                 WithDescriptors(Explode(WithSubset(ReactionsToTable(rs),
                                                    reaction_subsets)))
         IN IF exploded_df = <<>> THEN [none |-> FALSE, frame |-> <<>>]
            ELSE IF PredictorGeneratePredictionsRaises(exploded_df)
            THEN [none |-> TRUE, frame |-> <<>>]
            ELSE [none |-> FALSE,
                  frame |-> PredictorGeneratePredictions(provider, exploded_df,
                                                         parent_name)]

-----------------------------------------------------------------------------
(* The program: GLORYxR.predict over a batch, through Reactor.react_one *)

\* the models directory: one classifier per *.joblib file, named by its rule subset;
\* the second directory has no model for the subset UGT
ModelProviders ==
    { [s \in {"P450", "UGT"} |-> IF s = "P450" THEN "forestA" ELSE "forestB"],
      [s \in {"P450"} |-> "forestA"] }

\* the rule tables and models directories a program is constructed on: the directory
\* without a model for UGT goes with the table as shipped
Configurations ==
    {c \in RuleTables \X ModelProviders :
        c[1] = GloryxRules \/ DOMAIN c[2] = {"P450", "UGT"}}

\* the batches handed to predict: two molecules
Batches == {<<e1, e2>> : e1 \in Educts, e2 \in Educts}

\* the state after construction, the batch not yet chosen
Constructed ==
    /\ strict_soms \in BOOLEAN
    /\ \E c \in Configurations : abstract_reactions = c[1] /\ models = c[2]
    /\ mi = 1
    /\ pc = "rules"
    /\ ri = 1
    /\ products = <<>>
    /\ reactions = <<>>
    /\ concrete_reactions = <<>>
    /\ returned = <<>>
    /\ predictions = <<>>
    /\ result = <<>>
    /\ output = <<>>
    /\ run_reactants = <<>>

\* one molecule, through either Reactor; the Reactor of __init__.py, which reads the
\* rule names only and is not scored here, runs on the table as shipped
Init ==
    /\ Constructed
    /\ predictions_list = <<>>
    /\ predictions_df = <<>>
    /\ X = NotAStr
    /\ transformed = <<>>
    /\ impl \in {"reactor", "legacy"}
    /\ impl = "legacy" =>
          (abstract_reactions = GloryxRules /\ DOMAIN models = {"P450", "UGT"})
    /\ mols \in {<<e>> : e \in Educts}

\* a batch of molecules through GLORYxR.predict
InitBatch ==
    /\ Constructed
    /\ predictions_list = <<>>
    /\ predictions_df = <<>>
    /\ X = NotAStr
    /\ transformed = <<>>
    /\ impl = "reactor"
    /\ mols \in Batches

\* number of raw products RunReactants has given so far
NRaw == LET S == DOMAIN run_reactants
        IN IF S = {} THEN 0
           ELSE LET RECURSIVE Sum(_)
                    Sum(T) == IF T = {} THEN 0
                              ELSE LET x == CHOOSE x \in T : TRUE
                                   IN Len(run_reactants[x]) + Sum(T \ {x})
                IN Sum(S)

\* react_one, one step of the chain over the rules: _to_concrete_reactions (reactor.py)
\* or to_concrete_reactions (reaction.py) on what RunReactants gives for this rule.
\* What RunReactants gives is RDKit's to choose at every call; run_reactants keeps it
\* per call.
RunRule ==
    /\ pc = "rules"
    /\ ri <= Len(abstract_reactions)
    /\ LET ask == <<mi, ri>>
       IN \E prods \in SeqsUpTo(RawProducts(mols[mi]), MaxRaw - NRaw) :
             /\ products' = prods
             /\ reactions' =
                   IF impl = "reactor"
                   THEN ToConcreteReactions(abstract_reactions[ri], mols[mi], prods)
                   ELSE LegacyToConcreteReactions(abstract_reactions[ri], mols[mi], prods)
             /\ run_reactants' = [x \in DOMAIN run_reactants \cup {ask} |->
                                     IF x = ask THEN prods ELSE run_reactants[x]]
    /\ concrete_reactions' = concrete_reactions \o reactions'
    /\ ri' = ri + 1
    /\ UNCHANGED <<strict_soms, impl, abstract_reactions, models, mols, mi, pc,
                   returned, predictions, result, output, tables, vectorizer>>

\* reactor.py react_one, after the chain over the rules: annotates each concrete
\* reaction and returns the chain of _separate_reactions_for_products
ReactOneReturn ==
    /\ pc = "rules"
    /\ ri > Len(abstract_reactions)
    /\ impl = "reactor"
    /\ \E done \in {AnnotateAll(mols[mi], concrete_reactions, strict_soms)} :
          /\ concrete_reactions' = done.concrete_reactions
          /\ mols' = [mols EXCEPT ![mi] = done.mol]
    /\ returned' = Concat([k \in 1..Len(concrete_reactions) |->
                              SeparateReactionsForProducts(concrete_reactions'[k])])
    /\ pc' = "reacted"
    /\ UNCHANGED <<strict_soms, impl, abstract_reactions, models, mi, ri,
                   products, reactions, predictions, result, output, run_reactants,
                   tables, vectorizer>>

\* __init__.py react_one: annotates each concrete reaction and returns them as they are
LegacyReactOneReturn ==
    /\ pc = "rules"
    /\ ri > Len(abstract_reactions)
    /\ impl = "legacy"
    /\ \E done \in {AnnotateAll(mols[mi], concrete_reactions, strict_soms)} :
          /\ concrete_reactions' = done.concrete_reactions
          /\ mols' = [mols EXCEPT ![mi] = done.mol]
    /\ returned' = concrete_reactions'
    /\ pc' = "reacted"
    /\ UNCHANGED <<strict_soms, impl, abstract_reactions, models, mi, ri,
                   products, reactions, predictions, result, output, run_reactants,
                   tables, vectorizer>>

ScoringRaises ==
    \E k \in 1..Len(returned) :
        GeneratePredictionsRaises(models, returned[k].educt, returned[k].priority,
                                  returned[k].subset)

\* predict_one: one Prediction per concrete reaction
ScoreAll(provider, rs) ==
    [k \in 1..Len(rs) |->
        Prediction(rs[k], GeneratePredictions(provider, rs[k].educt, rs[k].priority,
                                              rs[k].subset))]

\* predict_one on what react_one returned: scores, deduplicates, filters and returns;
\* predict chains the result and goes on with the next molecule
PredictOne ==
    /\ pc = "reacted"
    /\ impl = "reactor"
    /\ ~ScoringRaises
    /\ predictions' = ScoreAll(models, returned)
    /\ result' = AggregateOne(predictions')
    /\ output' = output \o result'
    /\ IF mi < Len(mols)
       THEN /\ mi' = mi + 1
            /\ pc' = "rules"
            /\ ri' = 1
            /\ concrete_reactions' = <<>>
       ELSE /\ pc' = "done"
            /\ UNCHANGED <<mi, ri, concrete_reactions>>
    /\ UNCHANGED <<strict_soms, impl, abstract_reactions, models, mols,
                   products, reactions, returned, run_reactants, tables, vectorizer>>

\* predict_one: an exception of _get_prediction_score leaves predict_one and predict
PredictOneRaise ==
    /\ pc = "reacted"
    /\ impl = "reactor"
    /\ ScoringRaises
    /\ pc' = "raised"
    /\ UNCHANGED <<strict_soms, impl, abstract_reactions, models, mols, mi, ri,
                   products, reactions, concrete_reactions, returned, predictions,
                   result, output, run_reactants, tables, vectorizer>>

Next ==
    \/ RunRule
    \/ ReactOneReturn
    \/ LegacyReactOneReturn
    \/ PredictOne
    \/ PredictOneRaise

Spec == Init /\ [][Next]_vars

\* GLORYxR.predict on a batch: the legacy Reactor has no part in it
NextBatch ==
    \/ RunRule
    \/ ReactOneReturn
    \/ PredictOne
    \/ PredictOneRaise

SpecBatch == InitBatch /\ [][NextBatch]_vars

\* The steps of predict_molecules from "Combine results" on (88-147), taken as a
\* function of predictions_list, which is drawn: the empty list, the one the loop ends
\* with, and lists of frames with rows, which no run of the loop collects and which
\* show what the steps do to a table
InitAggregate ==
    /\ strict_soms = FALSE
    /\ impl = "legacy"
    /\ abstract_reactions = GloryxRules
    /\ models \in ModelProviders
    /\ mols = <<>>
    /\ mi = 1
    /\ pc = "collected"
    /\ ri = 1
    /\ products = <<>>
    /\ reactions = <<>>
    /\ concrete_reactions = <<>>
    /\ returned = <<>>
    /\ predictions = <<>>
    /\ result = <<>>
    /\ output = <<>>
    /\ run_reactants = <<>>
    /\ predictions_list \in
          {<<>>}
          \cup {<<f>> : f \in OneRowFrames("molecule_0") \cup TwoRowFrames("molecule_0")}
          \cup {<<f, g>> : f \in OneRowFrames("molecule_0") \cup TwoRowFrames("molecule_0"),
                           g \in OneRowFrames("molecule_1")}
    /\ predictions_df = <<>>
    /\ X = NotAStr
    /\ transformed = <<>>

\* predict_molecules, lines 88-147, with frames to combine
PredictMoleculesReturn ==
    /\ pc = "collected"
    /\ predictions_list # <<>>
    /\ LET cleaned == CleanedRows(predictions_list)
       IN \E order \in SortValuesByScore(cleaned) :
             predictions_df' = AggregateFrames(cleaned, order)
    /\ pc' = "returned"
    /\ UNCHANGED <<strict_soms, impl, abstract_reactions, models, mols, mi, ri,
                   products, reactions, concrete_reactions, returned, predictions,
                   result, output, run_reactants, predictions_list, vectorizer>>

\* predict_molecules without a frame: pd.DataFrame() has no column "parent_smiles"
PredictMoleculesRaise ==
    /\ pc = "collected"
    /\ predictions_list = <<>>
    /\ pc' = "raised"
    /\ UNCHANGED <<strict_soms, impl, abstract_reactions, models, mols, mi, ri,
                   products, reactions, concrete_reactions, returned, predictions,
                   result, output, run_reactants, tables, vectorizer>>

NextAggregate ==
    \/ PredictMoleculesReturn
    \/ PredictMoleculesRaise

SpecAggregate == InitAggregate /\ [][NextAggregate]_vars

\* The tables a caller of MetabolitePredictor holds for predict_molecules: up to
\* MaxBatch rows, the molecule of a row one of the input molecules or None
PredictorBatches == SeqsUpTo(Educts \cup {None}, MaxBatch)

\* the attributes an object of either Reactor class has after its __init__
ReactorAttributes(class) ==
    IF class = "legacy" THEN {"strict_soms", "reactions"}
    ELSE {"strict_soms", "abstract_reactions"}

\* MetabolitePredictor(models, reaction_subsets, strict_soms) is called, by a caller
\* that holds the table it means to predict
InitPredictor ==
    /\ strict_soms \in BOOLEAN
    /\ impl = "legacy"
    /\ abstract_reactions = GloryxRules
    /\ models \in ModelProviders
    /\ mols \in PredictorBatches
    /\ mi = 1
    /\ pc = "init"
    /\ ri = 1
    /\ products = <<>>
    /\ reactions = <<>>
    /\ concrete_reactions = <<>>
    /\ returned = <<>>
    /\ predictions = <<>>
    /\ result = <<>>
    /\ output = <<>>
    /\ run_reactants = <<>>
    /\ predictions_list = <<>>
    /\ predictions_df = <<>>
    /\ X = NotAStr
    /\ transformed = <<>>

\* MetabolitePredictor.__init__: the reactor is gloryxr.Reactor, the class of
\* __init__.py, and reading its attribute abstract_reactions for the message raises
\* AttributeError: no predictor is constructed
MetabolitePredictorInitRaise ==
    /\ pc = "init"
    /\ "abstract_reactions" \notin ReactorAttributes(impl)
    /\ pc' = "raised"
    /\ UNCHANGED <<strict_soms, impl, abstract_reactions, models, mols, mi, ri,
                   products, reactions, concrete_reactions, returned, predictions,
                   result, output, run_reactants, tables, vectorizer>>

\* the construction of a MetabolitePredictor; predict_molecules is never entered
NextPredictor ==
    \/ MetabolitePredictorInitRaise

SpecPredictor == InitPredictor /\ [][NextPredictor]_vars

\* The arguments transform_one is called with: a value that is not a str, and the
\* SMILES strings of the input molecules with every choice of atom map numbers, the
\* atoms named in every order
SiteLabels == 0..3

Labeled(mol, labels) ==
    [mol EXCEPT !.atoms = [i \in Idx(mol) |-> [mol.atoms[i] EXCEPT !.map = labels[i]]]]

\* the SMILES strings that denote a molecule, one for every order of its atoms
SmilesStrings(mol) ==
    {<<NAtoms(mol), RenumberCode(mol, p)>> : p \in Perms(NAtoms(mol))}

VectorizerInputs ==
    {NotAStr}
    \cup UNION {UNION {SmilesStrings(Labeled(e, l)) : l \in [Idx(e) -> SiteLabels]} :
                  e \in Educts}

\* a fitted Fame3RVectorizer and the argument of a call of transform_one
InitVectorizer ==
    /\ strict_soms = FALSE
    /\ impl = "legacy"
    /\ abstract_reactions = GloryxRules
    /\ models \in ModelProviders
    /\ mols = <<>>
    /\ mi = 1
    /\ pc = "transform_one"
    /\ ri = 1
    /\ products = <<>>
    /\ reactions = <<>>
    /\ concrete_reactions = <<>>
    /\ returned = <<>>
    /\ predictions = <<>>
    /\ result = <<>>
    /\ output = <<>>
    /\ run_reactants = <<>>
    /\ predictions_list = <<>>
    /\ predictions_df = <<>>
    /\ X \in VectorizerInputs
    /\ transformed = <<>>

\* Fame3RVectorizer.transform_one
TransformOneReturn ==
    /\ pc = "transform_one"
    /\ transformed' = <<TransformOne(X)>>
    /\ pc' = "transformed"
    /\ UNCHANGED <<strict_soms, impl, abstract_reactions, models, mols, mi, ri,
                   products, reactions, concrete_reactions, returned, predictions,
                   result, output, run_reactants, tables, X>>

NextVectorizer == TransformOneReturn

SpecVectorizer == InitVectorizer /\ [][NextVectorizer]_vars

-----------------------------------------------------------------------------
(* Properties *)

\* C1: the list one call of _to_concrete_reactions / to_concrete_reactions returns has
\* no two reactions with the same product identity (InChI); each reaction's product is
\* the first sanitizable raw candidate of its identity in match order, and every
\* sanitizable candidate's identity is in the list (products and reactions are the
\* raw candidates and the returned list of the call that has just returned).
C1_DedupWithinRuleApplication ==
    pc = "rules" =>
       \* the identities of the returned reactions and of the sanitizable candidates,
       \* each with its position
       \A made \in {{<<i, MolToInchi(reactions[i].product)>> : i \in 1..Len(reactions)}},
          raw \in {{<<j, MolToInchi(products[j].mol)>> :
                       j \in {k \in 1..Len(products) : products[k].sane}}} :
          /\ \A a, b \in made : a[2] = b[2] => a[1] = b[1]
          /\ \A a \in made :
                \E b \in raw :
                   /\ products[b[1]].mol = reactions[a[1]].product
                   /\ \A c \in raw : c[1] < b[1] => c[2] # b[2]
          /\ \A b \in raw : \E a \in made : a[2] = b[2]

\* two match positions of a symmetric molecule gave different raw products of the same
\* identity, and the rule application returned exactly one reaction
C1_Witness ==
    /\ pc = "rules"
    /\ Len(reactions) = 1
    /\ \E i, j \in 1..Len(products) :
          /\ i < j
          /\ products[i].sane /\ products[j].sane
          /\ products[i].mol # products[j].mol
          /\ MolToInchi(products[i].mol) = MolToInchi(products[j].mol)
          /\ reactions[1].product = products[i].mol

\* C2: every reaction react_one returns has a product of exactly one connected
\* fragment, a combined product of n fragments giving n reactions, one per fragment
C2_SingleFragmentProducts ==
    pc # "rules" =>
       /\ \A k \in 1..Len(returned) : Len(GetMolFrags(returned[k].product)) = 1
       /\ Len(returned) = Len(Concat([k \in 1..Len(concrete_reactions) |->
                                         GetMolFrags(concrete_reactions[k].product)]))

\* the same for the Reactor of reactor.py alone
C2_SingleFragmentProductsReactor ==
    impl = "reactor" => C2_SingleFragmentProducts

\* C3: in strict mode no site label is held by more than one atom of the educt, nor by
\* more than one atom of the product, after annotation
C3_StrictLabelsDistinct ==
    strict_soms =>
       \A k \in 1..Len(concrete_reactions) :
          LET r == concrete_reactions[k]
          IN /\ \A i, j \in Idx(r.educt) :
                   (i # j /\ r.educt.atoms[i].map # 0)
                      => r.educt.atoms[i].map # r.educt.atoms[j].map
             /\ \A i, j \in Idx(r.product) :
                   (i # j /\ r.product.atoms[i].map # 0)
                      => r.product.atoms[i].map # r.product.atoms[j].map

\* The educt with atom i as its only site
OnlySite(educt, i) ==
    [educt EXCEPT !.atoms = [a \in Idx(educt) |->
        IF a = i THEN educt.atoms[a] ELSE [educt.atoms[a] EXCEPT !.map = 0]]]

\* the weighted probability of site i of a reaction's educt
SiteScore(r, i) ==
    GetPredictionScore(models, TransformOne(MolToSmiles(OnlySite(r.educt, i))),
                       r.priority, r.subset)

\* the sites annotation selected: the labeled atoms of the educt
SitesOf(r) == {i \in Idx(r.educt) : r.educt.atoms[i].map # 0}

\* C4: the score of a prediction is the maximum of the site scores of all the sites
\* annotation selected for its reaction, and NaN when it selected none
C4_ScoreIsMaxOverSites ==
    \A k \in 1..Len(predictions) :
       LET r == predictions[k].concrete_reaction
       IN IF SitesOf(r) = {} THEN predictions[k].score = NaN
          ELSE predictions[k].score = FloatMax({SiteScore(r, i) : i \in SitesOf(r)})

\* a score is below another: NaN is no score, below every number
ScoreBelow(a, b) == (a.nan /\ ~b.nan) \/ FloatLess(a, b)

\* C5: the list returned for one molecule has at most one prediction per product
\* identity, and the one kept is the highest-scored prediction of that identity, the
\* first of them when scores are equal
C5_OnePerProductHighestKept ==
    /\ \A i, j \in 1..Len(result) :
          i # j => GetProductSmiles(result[i]) # GetProductSmiles(result[j])
    /\ \A i \in 1..Len(result) :
          \E k \in 1..Len(predictions) :
             /\ predictions[k] = result[i]
             /\ \A k2 \in 1..Len(predictions) :
                   GetProductSmiles(predictions[k2]) = GetProductSmiles(result[i])
                      => /\ ~ScoreBelow(predictions[k].score, predictions[k2].score)
                         /\ (k2 < k => ScoreBelow(predictions[k2].score,
                                                  predictions[k].score))

\* C6: a reaction without labeled atoms gets the score NaN and no prediction of the
\* list predict_one returns has the score NaN
C6_NoNaNInOutput ==
    /\ \A k \in 1..Len(predictions) :
          SitesOf(predictions[k].concrete_reaction) = {} => predictions[k].score = NaN
    /\ \A i \in 1..Len(result) : ~result[i].score.nan

\* C7: every prediction of the final output has a product of at least 3 heavy atoms;
\* a prediction whose product has 2 or fewer heavy atoms is not in the returned list
C7_AtLeastThreeHeavyAtoms ==
    /\ \A i \in 1..Len(result) :
          GetNumHeavyAtoms(result[i].concrete_reaction.product) >= 3
    /\ \A i \in 1..Len(output) :
          GetNumHeavyAtoms(output[i].concrete_reaction.product) >= 3
    /\ \A k \in 1..Len(predictions) :
          GetNumHeavyAtoms(predictions[k].concrete_reaction.product) <= 2
             => \A i \in 1..Len(result) : result[i] # predictions[k]

\* the same for the table predict_molecules returns
C7_TableAtLeastThreeHeavyAtoms ==
    \A k \in 1..Len(predictions_df) :
       GetNumHeavyAtoms(ParseSmiles(predictions_df[k].metabolite_smiles)) >= 3

\* enumeration gave valid candidates, all of them below the threshold, and the
\* molecule has no final prediction
C7_Witness ==
    /\ pc = "done"
    /\ predictions # <<>>
    /\ \A k \in 1..Len(predictions) :
          GetNumHeavyAtoms(predictions[k].concrete_reaction.product) <= 2
    /\ result = <<>>
    /\ output = <<>>

\* C8: the list returned for one molecule is in the order of non-increasing score,
\* predictions of equal score in the order they were generated
C8_SortedByScore ==
    \A i, j \in 1..Len(result) :
       i < j =>
          /\ ~FloatLess(result[i].score, result[j].score)
          /\ result[i].score = result[j].score =>
                \E k1, k2 \in 1..Len(predictions) :
                    k1 < k2 /\ predictions[k1] = result[i] /\ predictions[k2] = result[j]

\* the positive-class probability of the one site of a reaction with one site
OneSiteProba(r) ==
    LET i == CHOOSE i \in SitesOf(r) : TRUE
    IN PredictProba(models, r.subset, TransformOne(MolToSmiles(OnlySite(r.educt, i))))

\* C9: the score of a site is its probability times 1.0 for a "common" rule and times
\* 0.2 for an "uncommon" one (scores in hundredths, probabilities in tenths); a rule of
\* any other priority with a site to score raises, and no score is produced. The last
\* conjunct is the same for MetabolitePredictor._get_prediction_score on a row that
\* has the three columns it reads, for the sites of the reactions react_one returned.
C9_PriorityWeighting ==
    /\ \A k \in 1..Len(predictions) :
          LET r == predictions[k].concrete_reaction
          IN Cardinality(SitesOf(r)) = 1 =>
                /\ r.priority = "common" =>
                      predictions[k].score = Float(OneSiteProba(r) * 10)
                /\ r.priority = "uncommon" =>
                      predictions[k].score = Float(OneSiteProba(r) * 2)
    /\ (impl = "reactor" /\ pc \in {"done", "raised"}) =>
          ((\E k \in 1..Len(returned) :
               /\ SitesOf(returned[k]) # {}
               /\ returned[k].priority \notin {"common", "uncommon"})
              => pc = "raised")
    /\ pc = "raised" => predictions = <<>>
    /\ pc = "reacted" =>
          \A k \in 1..Len(returned) :
             Cardinality(SitesOf(returned[k])) = 1 =>
                \A subset \in DOMAIN models :
                   LET i == CHOOSE i \in SitesOf(returned[k]) : TRUE
                       d == TransformOne(MolToSmiles(OnlySite(returned[k].educt, i)))
                       row(priority) == [Subset |-> subset, Descriptors |-> d,
                                         Priority |-> priority]
                   IN /\ ~RowPredictionScoreRaises(row("common"))
                      /\ RowPredictionScore(models, row("common"))
                            = Float(PredictProba(models, subset, d) * 10)
                      /\ ~RowPredictionScoreRaises(row("uncommon"))
                      /\ RowPredictionScore(models, row("uncommon"))
                            = Float(PredictProba(models, subset, d) * 2)
                      /\ RowPredictionScoreRaises(row("rare"))

\* a site of probability 0.5 scored 0.5 under a common rule and 0.1 under an uncommon one
C9_Witness ==
    \E k1, k2 \in 1..Len(predictions) :
       LET r1 == predictions[k1].concrete_reaction
           r2 == predictions[k2].concrete_reaction
       IN /\ Cardinality(SitesOf(r1)) = 1 /\ Cardinality(SitesOf(r2)) = 1
          /\ OneSiteProba(r1) = 5 /\ OneSiteProba(r2) = 5
          /\ r1.priority = "common" /\ predictions[k1].score = Float(50)
          /\ r2.priority = "uncommon" /\ predictions[k2].score = Float(10)

\* a rule of priority "rare" had a site to score and scoring raised
C9_WitnessRaise ==
    /\ pc = "raised"
    /\ \E k \in 1..Len(returned) :
          SitesOf(returned[k]) # {} /\ returned[k].priority = "rare"

\* what GLORYxR.predict_one returns for molecule i of the batch alone, RunReactants
\* giving what it gave for it in this run
PredictOneAlone(i) ==
    LET made == Concat([k \in 1..Len(abstract_reactions) |->
                    ToConcreteReactions(abstract_reactions[k], mols[i],
                                        run_reactants[<<i, k>>])])
        annotated == [k \in 1..Len(made) |-> Annotate(made[k], strict_soms)]
    IN AggregateOne(ScoreAll(models,
           Concat([k \in 1..Len(annotated) |->
                      SeparateReactionsForProducts(annotated[k])])))

\* what GLORYxR.predict returns for a batch is the chain of what predict_one returns
\* for each molecule alone
C10_PredictChainsPerMolecule ==
    pc = "done" =>
       output = Concat([i \in 1..Len(mols) |-> PredictOneAlone(i)])

\* C10: the predictions reported for a molecule of a batch are those reported for it
\* when it is processed alone: what predict returns is the chain of what predict_one
\* returns for each molecule alone, and when predict ends with an exception, which
\* reports nothing, no molecule processed before had predictions of its own to report
C10_BatchIndependence ==
    /\ C10_PredictChainsPerMolecule
    /\ pc = "raised" => \A i \in 1..(mi - 1) : PredictOneAlone(i) = <<>>

\* C11: a failure on one candidate or one reaction is absorbed where it happens: the
\* sanitizable candidates of a rule application are kept whatever their siblings do,
\* when predict has ended every reaction of the molecule whose scoring does not fail
\* has its prediction, and every molecule of the batch has been processed
C11_FailuresAbsorbedLocally ==
    /\ pc = "rules" =>
          \A j \in 1..Len(products) :
             products[j].sane =>
                \E i \in 1..Len(reactions) :
                   MolToInchi(reactions[i].product) = MolToInchi(products[j].mol)
    /\ pc \in {"done", "raised"} =>
          /\ mi = Len(mols)
          /\ \A k \in 1..Len(returned) :
                ~GeneratePredictionsRaises(models, returned[k].educt,
                                           returned[k].priority, returned[k].subset)
                   => \E i \in 1..Len(predictions) :
                         predictions[i].concrete_reaction = returned[k]

\* C12: when the provider has no model for the subset of a reaction, scoring still
\* ends well: predict_one raises only for a priority that is neither "common" nor
\* "uncommon", and a prediction of a reaction with sites and without a model has the
\* score 0.0 or is not in the returned list. The last conjunct is the same for
\* MetabolitePredictor._get_prediction_score on a row of a subset without a model.
C12_MissingModelWellDefined ==
    /\ (impl = "reactor" /\ pc = "raised") =>
          \E k \in 1..Len(returned) :
             /\ SitesOf(returned[k]) # {}
             /\ returned[k].priority \notin {"common", "uncommon"}
    /\ \A k \in 1..Len(predictions) :
          LET r == predictions[k].concrete_reaction
          IN (SitesOf(r) # {} /\ r.subset \notin DOMAIN models) =>
                \/ predictions[k].score = Float(0)
                \/ \A i \in 1..Len(result) : result[i] # predictions[k]
    /\ \A k \in 1..Len(returned) :
          Cardinality(SitesOf(returned[k])) = 1 =>
             \A subset \in {"P450", "UGT", "Unknown"} \ DOMAIN models :
                LET i == CHOOSE i \in SitesOf(returned[k]) : TRUE
                    d == TransformOne(MolToSmiles(OnlySite(returned[k].educt, i)))
                    row == [Subset |-> subset, Descriptors |-> d, Priority |-> "common"]
                IN /\ ~RowPredictionScoreRaises(row)
                   /\ RowPredictionScore(models, row) = Float(0)

SameRawProducts(i, j) ==
    \A k \in 1..Len(abstract_reactions) :
       run_reactants[<<i, k>>] = run_reactants[<<j, k>>]

PredictOneLoadedAs(educt, p) ==
    LET made == Concat([k \in 1..Len(abstract_reactions) |->
                    ToConcreteReactions(abstract_reactions[p[k]], educt,
                                        run_reactants[<<1, p[k]>>])])
        annotated == [k \in 1..Len(made) |-> Annotate(made[k], strict_soms)]
    IN AggregateOne(ScoreAll(models,
           Concat([k \in 1..Len(annotated) |->
                      SeparateReactionsForProducts(annotated[k])])))

\* a list of predictions as a set of (product identity, rule name, rule subset, score)
PredictionSet(preds) ==
    {<<GetProductSmiles(preds[k]), preds[k].concrete_reaction.name,
       preds[k].concrete_reaction.subset, preds[k].score>> : k \in 1..Len(preds)}

\* C15: the set of (product identity, rule name, rule subset, score) of the final
\* predictions of a molecule is the same for every order of the rows of the rule table
C15_RuleOrderIrrelevant ==
    (pc = "done" /\ impl = "reactor") =>
       \A p \in Perms(Len(abstract_reactions)) :
          PredictionSet(PredictOneLoadedAs(mols[1], p)) = PredictionSet(result)

\* C16: a rule whose priority is neither "common" nor "uncommon" is rejected when the
\* table is loaded: the table of a constructed Reactor holds no such rule, and scoring
\* never raises for the priority of a reaction
C16_InvalidPriorityRejectedAtLoad ==
    impl = "reactor" =>
       /\ \A k \in 1..Len(abstract_reactions) :
             abstract_reactions[k].priority \in {"common", "uncommon"}
       /\ pc = "raised" =>
             \A k \in 1..Len(returned) :
                SitesOf(returned[k]) # {}
                   => returned[k].priority \in {"common", "uncommon"}

\* the educt atoms with a counterpart in the product (a non-hydrogen product atom whose
\* react_atom_idx is theirs), those without one, and the product atoms without an
\* educt atom
CommonAtoms(r) ==
    {i \in Idx(r.educt) :
        \E j \in Idx(r.product) : r.product.atoms[j].ridx = i /\ r.product.atoms[j].el # "H"}

RemovedAtoms(r) == Idx(r.educt) \ CommonAtoms(r)

AddedAtoms(r) == {j \in Idx(r.product) : r.product.atoms[j].ridx = 0}

\* the shortest-path distance from atom i to the nearest atom of S
DistanceToNearest(mol, i, S) == Min({GetDistanceMatrix(mol)[i][x] : x \in S})

\* the atoms of `among` that are nearest to S
NearestTo(mol, among, S) ==
    {i \in among :
        \A i2 \in among : DistanceToNearest(mol, i, S) <= DistanceToNearest(mol, i2, S)}

\* the labeled atoms of the product
ProductSitesOf(r) == {j \in Idx(r.product) : r.product.atoms[j].map # 0}

\* C17: in strict mode, when react_one has annotated, the labeled educt atoms of a
\* reaction with removed atoms are exactly the common atoms nearest (in the educt) to
\* a removed atom, none when there is no common atom, and the labeled product atoms
\* are their counterparts
C17_StrictSitesNearestToRemoved ==
    (strict_soms /\ pc = "reacted") =>
       \A k \in 1..Len(concrete_reactions) :
          LET r == concrete_reactions[k]
          IN RemovedAtoms(r) # {} =>
                /\ SitesOf(r) = NearestTo(r.educt, CommonAtoms(r), RemovedAtoms(r))
                /\ ProductSitesOf(r) =
                      {j \in Idx(r.product) : r.product.atoms[j].ridx \in SitesOf(r)}

\* of two common atoms, only the one next to the removed atom is labeled
C17_Witness ==
    /\ strict_soms
    /\ pc = "reacted"
    /\ \E k \in 1..Len(concrete_reactions) :
          LET r == concrete_reactions[k]
          IN /\ RemovedAtoms(r) # {}
             /\ SitesOf(r) # {}
             /\ SitesOf(r) # CommonAtoms(r)

\* every atom of the educt was removed and no atom is labeled
C17_WitnessNoCommonAtom ==
    /\ strict_soms
    /\ pc = "reacted"
    /\ \E k \in 1..Len(concrete_reactions) :
          LET r == concrete_reactions[k]
          IN CommonAtoms(r) = {} /\ SitesOf(r) = {} /\ ProductSitesOf(r) = {}

\* the product atoms that have an educt atom (react_atom_idx) and are not hydrogen
CommonProductAtoms(r) ==
    {j \in Idx(r.product) : r.product.atoms[j].ridx # 0 /\ r.product.atoms[j].el # "H"}

\* C18: in strict mode, for a reaction without removed atoms and with added atoms, the
\* labeled product atoms are exactly the common atoms nearest (in the product) to an
\* added atom, each with the label of the educt atom at its react_atom_idx, and no
\* other educt atom is labeled; for a reaction with removed atoms the sites are those
\* nearest to a removed atom in the educt, whether or not atoms were added
C18_StrictSitesNearestToAdded ==
    (strict_soms /\ pc = "reacted") =>
       \A k \in 1..Len(concrete_reactions) :
          LET r == concrete_reactions[k]
          IN /\ (RemovedAtoms(r) = {} /\ AddedAtoms(r) # {}) =>
                   /\ ProductSitesOf(r) =
                         NearestTo(r.product, CommonProductAtoms(r), AddedAtoms(r))
                   /\ \A j \in ProductSitesOf(r) :
                         r.educt.atoms[r.product.atoms[j].ridx].map = r.product.atoms[j].map
                   /\ SitesOf(r) = {r.product.atoms[j].ridx : j \in ProductSitesOf(r)}
             /\ (RemovedAtoms(r) # {} /\ AddedAtoms(r) # {}) =>
                   SitesOf(r) = NearestTo(r.educt, CommonAtoms(r), RemovedAtoms(r))

\* an atom was added and none removed, and of the common atoms only the nearest to the
\* added atom is labeled, in the product and in the educt
C18_Witness ==
    /\ strict_soms
    /\ pc = "reacted"
    /\ \E k \in 1..Len(concrete_reactions) :
          LET r == concrete_reactions[k]
          IN /\ RemovedAtoms(r) = {}
             /\ AddedAtoms(r) # {}
             /\ ProductSitesOf(r) # {}
             /\ ProductSitesOf(r) # CommonProductAtoms(r)
             /\ SitesOf(r) # {}

\* atoms were removed and added, and the site is not the atom next to the added one
C18_WitnessRemovedAndAdded ==
    /\ strict_soms
    /\ pc = "reacted"
    /\ \E k \in 1..Len(concrete_reactions) :
          LET r == concrete_reactions[k]
          IN /\ RemovedAtoms(r) # {}
             /\ AddedAtoms(r) # {}
             /\ SitesOf(r) # {}
             /\ ProductSitesOf(r)
                   # NearestTo(r.product, CommonProductAtoms(r), AddedAtoms(r))

\* C19: in strict mode annotation leaves a reaction without removed and without added
\* atoms as it is: every atom label of its educt and of its product is after react_one's
\* annotation what it was before
C19_StrictNoChangeNoLabel ==
    [][(strict_soms /\ pc = "rules" /\ pc' = "reacted") =>
          \A k \in 1..Len(concrete_reactions) :
             (RemovedAtoms(concrete_reactions[k]) = {}
                 /\ AddedAtoms(concrete_reactions[k]) = {})
                => concrete_reactions'[k] = concrete_reactions[k]]_vars

\* a reaction whose template maps two atoms and neither removes nor adds one was
\* annotated in strict mode and carries no label
C19_Witness ==
    /\ strict_soms
    /\ pc = "reacted"
    /\ \E k \in 1..Len(concrete_reactions) :
          LET r == concrete_reactions[k]
          IN /\ RemovedAtoms(r) = {}
             /\ AddedAtoms(r) = {}
             /\ \E j \in Idx(r.product) : r.product.atoms[j].omap # 0
             /\ SitesOf(r) = {}
             /\ ProductSitesOf(r) = {}

\* C20: in loose mode the labeled product atoms are exactly the non-hydrogen product
\* atoms with old_mapno, and each of them carries the label of the educt atom at its
\* react_atom_idx; no other educt atom is labeled
C20_LooseSitesAreMappedAtoms ==
    (~strict_soms /\ pc = "reacted") =>
       \A k \in 1..Len(concrete_reactions) :
          LET r == concrete_reactions[k]
          IN /\ ProductSitesOf(r) =
                   {j \in Idx(r.product) :
                       r.product.atoms[j].omap # 0 /\ r.product.atoms[j].el # "H"}
             /\ \A j \in ProductSitesOf(r) :
                   r.educt.atoms[r.product.atoms[j].ridx].map = r.product.atoms[j].map
             /\ SitesOf(r) = {r.product.atoms[j].ridx : j \in ProductSitesOf(r)}

\* a reaction annotated in loose mode: the mapped atom is labeled, in the product and
\* in the educt, and an atom that came from the educt unmapped is not
C20_Witness ==
    /\ ~strict_soms
    /\ pc = "reacted"
    /\ \E k \in 1..Len(concrete_reactions) :
          LET r == concrete_reactions[k]
          IN /\ ProductSitesOf(r) # {}
             /\ ProductSitesOf(r) # CommonProductAtoms(r)
             /\ SitesOf(r) # {}

\* C21: when react_one has annotated a reaction of an unlabeled molecule for which k
\* sites were selected, the labels in use on its educt and on its product are exactly
\* 1..k, the i-th selected site carrying the label i
C21_LabelsAreOneToK ==
    pc = "reacted" =>
       \A k \in 1..Len(concrete_reactions) :
          LET r == concrete_reactions[k]
              sites == SomIndices(r.educt, r.product, strict_soms)
          IN /\ {r.product.atoms[j].map : j \in Idx(r.product)} \ {0} = 1..Len(sites)
             /\ {r.educt.atoms[i].map : i \in Idx(r.educt)} \ {0} = 1..Len(sites)
             /\ \A i \in 1..Len(sites) : r.product.atoms[sites[i]].map = i

\* the positive labels on the atoms of a molecule
LabelsOf(mol) == {mol.atoms[i].map : i \in Idx(mol)} \ {0}

\* C22: in every reaction react_one returns for an unlabeled molecule, each positive
\* label is held by exactly one educt atom and by exactly one product atom, the
\* product atom being the counterpart (react_atom_idx) of the educt atom, and the
\* labels on the educt are the labels on the product, also after splitting
C22_LabelSharedByOnePair ==
    \A k \in 1..Len(returned) :
       LET r == returned[k]
       IN /\ LabelsOf(r.educt) = LabelsOf(r.product)
          /\ \A l \in LabelsOf(r.educt) \cup LabelsOf(r.product) :
                /\ Cardinality({i \in Idx(r.educt) : r.educt.atoms[i].map = l}) = 1
                /\ Cardinality({j \in Idx(r.product) : r.product.atoms[j].map = l}) = 1
                /\ \A j \in Idx(r.product) :
                      r.product.atoms[j].map = l
                         => /\ r.product.atoms[j].ridx \in Idx(r.educt)
                            /\ r.educt.atoms[r.product.atoms[j].ridx].map = l

\* the labeled atoms of a parsed SMILES string or of a molecule
LabeledAtoms(mol) == {a \in DOMAIN mol.atoms : mol.atoms[a].map # 0}

\* C23: for the educt of every reaction predict_one has scored, extract_smiles_for_soms
\* (utils.py, SMILES strings) and extract_similes_for_soms (util.py, molecules) give one
\* view per distinct positive label of the educt, in ascending label order; in each
\* view exactly one atom is labeled, with the view's label; an educt without labels
\* gives no view, and the educt is after the call what react_one returned
C23_OneViewPerLabel ==
    \A k \in 1..Len(predictions) :
       LET educt == predictions[k].concrete_reaction.educt
           smiles == ExtractSmilesForSoms(educt)
           views == ExtractSimilesForSoms(educt)
           label(mol) == mol.atoms[CHOOSE a \in LabeledAtoms(mol) : TRUE].map
       IN /\ Len(smiles) = Cardinality(LabelsOf(educt))
          /\ Len(views) = Cardinality(LabelsOf(educt))
          /\ \A i \in 1..Len(smiles) :
                /\ Cardinality(LabeledAtoms(ParseSmiles(smiles[i]))) = 1
                /\ Cardinality(LabeledAtoms(views[i])) = 1
                /\ label(ParseSmiles(smiles[i])) = label(views[i])
                /\ label(views[i]) \in LabelsOf(educt)
                /\ \A a \in LabeledAtoms(views[i]) : educt.atoms[a].map = label(views[i])
                /\ WithoutMappings(views[i]) = WithoutMappings(educt)
                /\ smiles[i] = MolToSmiles(views[i])
          /\ \A i, j \in 1..Len(views) : i < j => label(views[i]) < label(views[j])
          /\ LabelsOf(educt) = {} => (smiles = <<>> /\ views = <<>>)
          /\ k <= Len(returned) /\ educt = returned[k].educt

\* predict_one has scored a reaction whose educt carries two different labels: two
\* views, the first with the lower label
C23_Witness ==
    \E k \in 1..Len(predictions) :
       LET educt == predictions[k].concrete_reaction.educt
       IN /\ Cardinality(LabelsOf(educt)) = 2
          /\ Len(ExtractSmilesForSoms(educt)) = 2

\* predict_one has scored a reaction whose educt has several atoms with one label:
\* one view, with one labeled atom
C23_WitnessSharedLabel ==
    \E k \in 1..Len(predictions) :
       LET educt == predictions[k].concrete_reaction.educt
       IN /\ Cardinality(LabeledAtoms(educt)) > 1
          /\ Cardinality(LabelsOf(educt)) = 1
          /\ Len(ExtractSmilesForSoms(educt)) = 1

\* the fragments of a molecule, as a set
FragmentsOf(mol) == {GetMolFrags(mol)[f] : f \in 1..Len(GetMolFrags(mol))}

\* C24: every reaction react_one returns carries the name, the priority and the subset
\* of the rule that generated it (the rule one of whose raw products has the reaction's
\* product, labels aside, as a whole or as a fragment), and it has the educt of the
\* combined reaction it was split from
C24_RuleMetadataCarried ==
    pc = "reacted" =>
       \A k \in 1..Len(returned) :
          LET r == returned[k]
          IN /\ \E n \in 1..Len(abstract_reactions) :
                   /\ r.name = abstract_reactions[n].name
                   /\ r.priority = abstract_reactions[n].priority
                   /\ r.subset = abstract_reactions[n].subset
                   /\ \E j \in 1..Len(run_reactants[<<mi, n>>]) :
                         LET raw == run_reactants[<<mi, n>>][j].mol
                         IN WithoutMappings(r.product) \in
                               {raw} \cup FragmentsOf(raw)
             /\ \E c \in 1..Len(concrete_reactions) :
                   /\ r.educt = concrete_reactions[c].educt
                   /\ r.product \in {concrete_reactions[c].product}
                                       \cup FragmentsOf(concrete_reactions[c].product)
                   /\ r.name = concrete_reactions[c].name
                   /\ r.priority = concrete_reactions[c].priority
                   /\ r.subset = concrete_reactions[c].subset

\* the SMILES of the fragments of a product that have the most atoms
LargestFragments(smiles) ==
    LET frags == FragmentsOf(ParseSmiles(smiles))
    IN {MolToSmiles(f) : f \in {g \in frags : \A h \in frags : NAtoms(h) <= NAtoms(g)}}

\* the number of heavy atoms of the largest fragment of a product
LargestHeavyAtoms(smiles) ==
    Max({GetNumHeavyAtoms(f) : f \in {g \in FragmentsOf(ParseSmiles(smiles)) :
             \A h \in FragmentsOf(ParseSmiles(smiles)) : NAtoms(h) <= NAtoms(g)}})

\* C25: in the table predict_molecules returns, every product is one fragment; each
\* row is the top-scored row of one product of the combined table (the products
\* compared whole, before any reduction) with the product replaced by its largest
\* fragment; and a product has a row exactly when its largest fragment has at least 3
\* heavy atoms, whatever its other fragments add
C25_LargestFragmentBeforeFilter ==
    pc = "returned" =>
       \A cleaned \in {CleanedRows(predictions_list)} :
          LET groups == {cleaned[k].metabolite_smiles : k \in 1..Len(cleaned)}
              top(c) == \A k \in 1..Len(cleaned) :
                           cleaned[k].metabolite_smiles = c.metabolite_smiles
                              => ~ScoreBelow(c.Score, cleaned[k].Score)
          IN /\ \A i \in 1..Len(predictions_df) :
                   /\ Len(GetMolFrags(ParseSmiles(predictions_df[i].metabolite_smiles))) = 1
                   /\ \E k \in 1..Len(cleaned) :
                         /\ top(cleaned[k])
                         /\ predictions_df[i].metabolite_smiles
                               \in LargestFragments(cleaned[k].metabolite_smiles)
                         /\ predictions_df[i].parent_name = cleaned[k].parent_name
                         /\ predictions_df[i].parent_smiles = cleaned[k].parent_smiles
                         /\ predictions_df[i].reaction = cleaned[k].Reaction
                         /\ predictions_df[i].score = cleaned[k].Score
             /\ Len(predictions_df) =
                   Cardinality({m \in groups : LargestHeavyAtoms(m) >= MinHeavyAtoms})

\* a two-fragment product whose largest fragment has 3 heavy atoms is in the table as
\* that fragment
C25_Witness ==
    /\ pc = "returned"
    /\ \E f \in 1..Len(predictions_list) : \E k \in 1..Len(predictions_list[f]) :
          LET m == CleanSmiles(predictions_list[f][k].metabolite_smiles)
          IN /\ Len(GetMolFrags(ParseSmiles(m))) = 2
             /\ LargestHeavyAtoms(m) >= MinHeavyAtoms
             /\ \E i \in 1..Len(predictions_df) :
                   predictions_df[i].metabolite_smiles \in LargestFragments(m)

\* a two-fragment product of 3 heavy atoms whose largest fragment has 2 is not in the
\* table, and another product is
C25_WitnessSmallLargestFragment ==
    /\ pc = "returned"
    /\ predictions_df # <<>>
    /\ \E f \in 1..Len(predictions_list) : \E k \in 1..Len(predictions_list[f]) :
          LET m == CleanSmiles(predictions_list[f][k].metabolite_smiles)
          IN /\ Len(GetMolFrags(ParseSmiles(m))) = 2
             /\ GetNumHeavyAtoms(ParseSmiles(m)) >= MinHeavyAtoms
             /\ LargestHeavyAtoms(m) < MinHeavyAtoms
             /\ \A i \in 1..Len(predictions_df) :
                   predictions_df[i].metabolite_smiles \notin LargestFragments(m)

\* C26: in the rule application that has just returned, a raw candidate that fails
\* sanitization is passed over: when a candidate failed, the returned reactions are
\* still exactly the sanitizable candidates that no earlier sanitizable candidate has
\* the identity of, the failed one counting neither as seen nor as the end of the
\* enumeration; without a sanitizable candidate (no match among them) the list is
\* empty; and react_one goes on with the list chained to its reactions
C26_SanitizationFailureSkipped ==
    pc = "rules" =>
       /\ (\A j \in 1..Len(products) : ~products[j].sane) => reactions = <<>>
       /\ Len(concrete_reactions) >= Len(reactions)
       /\ SubSeq(concrete_reactions,
                 Len(concrete_reactions) - Len(reactions) + 1,
                 Len(concrete_reactions)) = reactions
       /\ (\E j \in 1..Len(products) : ~products[j].sane) =>
             \A sane \in {{<<j, MolToInchi(products[j].mol)>> :
                              j \in {k \in 1..Len(products) : products[k].sane}}} :
                LET firsts == {b \in sane : \A c \in sane : c[1] < b[1] => c[2] # b[2]}
                IN /\ Len(reactions) = Cardinality(firsts)
                   /\ \A b \in firsts :
                         \E a \in 1..Len(reactions) :
                            reactions[a].product = products[b[1]].mol

\* a candidate failed sanitization and the next candidate, of the same identity,
\* passed it and is the one reaction of the returned list
C26_Witness ==
    /\ pc = "rules"
    /\ Len(products) = 2
    /\ ~products[1].sane
    /\ products[2].sane
    /\ MolToInchi(products[1].mol) = MolToInchi(products[2].mol)
    /\ Len(reactions) = 1
    /\ reactions[1].product = products[2].mol

\* the rule did not match: no candidate, no reaction, and the next rule is up
C26_WitnessNoMatch ==
    /\ pc = "rules"
    /\ ri > 1
    /\ products = <<>>
    /\ reactions = <<>>

\* C27: no step of react_one changes the molecule passed in or the rule table; the
\* chain over the rules leaves the reactions already made as they are; and the
\* annotation loop leaves each reaction what annotating that reaction alone gives, a
\* reaction without sites exactly as it was
C27_ReactOneFrame ==
    [][pc = "rules" =>
          /\ mols' = mols
          /\ abstract_reactions' = abstract_reactions
          /\ pc' = "rules" =>
                /\ Len(concrete_reactions') >= Len(concrete_reactions)
                /\ SubSeq(concrete_reactions', 1, Len(concrete_reactions))
                      = concrete_reactions
          /\ pc' = "reacted" =>
                /\ Len(concrete_reactions') = Len(concrete_reactions)
                /\ \A k \in 1..Len(concrete_reactions) :
                      LET r == concrete_reactions[k]
                      IN /\ concrete_reactions'[k] = Annotate(r, strict_soms)
                         /\ SomIndices(r.educt, r.product, strict_soms) = <<>>
                               => concrete_reactions'[k] = r]_vars

\* react_one has annotated two reactions with different sites, and the molecule passed
\* in carries no label
C27_Witness ==
    /\ pc = "reacted"
    /\ LabelsOf(mols[mi]) = {}
    /\ \E k1, k2 \in 1..Len(concrete_reactions) :
          /\ SitesOf(concrete_reactions[k1]) # {}
          /\ SitesOf(concrete_reactions[k2]) # {}
          /\ SitesOf(concrete_reactions[k1]) # SitesOf(concrete_reactions[k2])

\* C28: transform_one returns the all-NaN vector whenever its argument is not a str or
\* is a SMILES in which the number of labeled atoms is not exactly one (none, or several)
C28_EmptyValueUnlessOneLabeledAtom ==
    (/\ pc = "transformed"
     /\ (X = NotAStr \/ Cardinality(LabeledAtoms(ParseSmiles(X))) # 1))
       => transformed = <<EmptyValue>>

\* the rule of a returned reaction has a valid priority
RuleOfHasValidPriority(r) ==
    \E n \in 1..Len(abstract_reactions) :
       /\ abstract_reactions[n].name = r.name
       /\ abstract_reactions[n].priority \in {"common", "uncommon"}

\* C29: for a molecule that is not None and for which react_one of the predictor's
\* reactor has returned at least one reaction of a rule with a valid priority,
\* _process_molecule returns a table with at least one row, and not None (None is
\* what makes predict_molecules record the molecule with processing_error)
C29_ReactingMoleculeIsScored ==
    (/\ impl = "legacy"
     /\ pc = "reacted"
     /\ \E k \in 1..Len(returned) : RuleOfHasValidPriority(returned[k]))
       => \A res \in {ProcessMolecule(models, LoadReactionSubsets(abstract_reactions),
                                       mols[mi], returned, "molecule_0")} :
             /\ ~res.none
             /\ res.frame # <<>>

\* C30: for every batch the caller holds, constructing the predictor and calling
\* predict_molecules with the batch does not end in an exception
C30_PredictMoleculesReturns == pc # "raised"

====
